---------------------------- MODULE Spec2Model ----------------------------
(***************************************************************************)
(* A model of layers.py: the attention primitives, the attention layers,   *)
(* the recurrent cell, the linear layer and the embedding lookup.          *)
(*                                                                         *)
(* Tensors are records [shape, val]: shape is the tuple torch's size()     *)
(* returns, val the nested sequence of entries (a sequence of scalars for  *)
(* one axis, a sequence of rows for two).  Inputs and parameters hold      *)
(* integers.  Arithmetic is exact: a softmax weight is a rational <<n, d>> *)
(* in lowest terms, exp(z / sqrt(d)) is taken as 2^z for the integer       *)
(* dot product z (2 stands for the base e^(1/sqrt(d)) > 1), and tanh is    *)
(* its integer saturation.  A call returns [err, out]: err is "none" or the    *)
(* name of the exception the call raises.                                  *)
(***************************************************************************)
EXTENDS Integers, Sequences, FiniteSets, TLC

VARIABLES params,   \* the layers' parameters (set at construction)
          mstate,   \* decoding driver: state threaded through MaskedSelfAttentionLayer.step
          mhist,    \* inputs the driver supplied to step since start(), in call order
          mouts,    \* outputs the driver got from those step calls
          rstate,   \* decoding driver: state threaded through RNN.step
          rhist,    \* inputs the driver supplied to RNN.step since start()
          routs,    \* outputs the driver got from those step calls
          call      \* the last call made: its operation, arguments and result

vars == <<params, mstate, mhist, mouts, rstate, rhist, routs, call>>

(***************************************************************************)
(* Bounds of the model.                                                    *)
(***************************************************************************)
\* Longest sequence the drivers build and forward is run on.
MaxLen == 3
\* Most queries and most keys in one call of attention or hardAttention.
MaxQueries == 2
MaxKeys == 2
\* Largest input_dims and output_dims a LinearLayer is constructed with.
MaxLinearDims == 2
\* Python ints and tensor ids passed to Embedding.forward range over
\* -MaxId .. MaxId.
MaxId == 3
\* The softmax of MaskedSelfAttentionLayerTemp.forward is computed on
\* sequences whose tempered logits differ by at most MaxExponent within a
\* row, so that 2^MaxExponent and its products fit TLC's integers.
MaxExponent == 16
\* The entries of input vectors.
Vals == {-1, 1}
\* The layer sizes (the constructors' dims argument) the model covers.
DimsChoices == {1, 2}

(***************************************************************************)
(* Tensors, results, exact rationals.                                      *)
(***************************************************************************)
Vec(xs) == [shape |-> <<Len(xs)>>, val |-> xs]
Mat(n, d, rows) == [shape |-> <<n, d>>, val |-> rows]
NoTensor == [shape |-> <<>>, val |-> <<>>]
Ndim(t) == Len(t.shape)
\* t.size()[-k]
SizeFromEnd(t, k) == t.shape[Len(t.shape) - k + 1]

Ok(t) == [err |-> "none", out |-> t]
Raise(e) == [err |-> e, out |-> NoTensor]

Abs(x) == IF x < 0 THEN -x ELSE x

\* The sequence f, with its entries computed once (TLC evaluates a function
\* constructor's body anew at every application).
AsSeq(f) == f \o <<>>
\* <<E(1), ..., E(n)>>, and the n rows <<E(i, 1), ..., E(i, m)>>.
Seq1(n, E(_)) == AsSeq([i \in 1..n |-> E(i)])
Seq2(n, m, E(_, _)) == AsSeq([i \in 1..n |-> AsSeq([j \in 1..m |-> E(i, j)])])

RECURSIVE Gcd(_, _)
Gcd(a, b) == IF b = 0 THEN a ELSE Gcd(b, a % b)

\* The rational n/d in lowest terms (d > 0); NaN is <<0, 0>>.
NaN == <<0, 0>>
Rat(n, d) ==
    IF d = 0 THEN NaN
    ELSE LET g == Gcd(Abs(n), Abs(d))
             s == IF d < 0 THEN -1 ELSE 1
         IN <<s * (n \div g), s * (d \div g)>>
\* The sum, over the least common denominator.
RatAdd(p, q) ==
    IF p = NaN \/ q = NaN THEN NaN
    ELSE LET g == Gcd(p[2], q[2])
         IN Rat(p[1] * (q[2] \div g) + q[1] * (p[2] \div g), (p[2] \div g) * q[2])
RatMulInt(p, k) == IF p = NaN THEN NaN ELSE Rat(p[1] * k, p[2])

RECURSIVE SumInts(_)
SumInts(s) == IF s = <<>> THEN 0 ELSE Head(s) + SumInts(Tail(s))

RECURSIVE SumRats(_)
SumRats(s) == IF s = <<>> THEN <<0, 1>> ELSE RatAdd(Head(s), SumRats(Tail(s)))

RECURSIVE Pow(_, _)
Pow(b, e) == IF e = 0 THEN 1 ELSE b * Pow(b, e - 1)

Dot(a, b) == SumInts(AsSeq([i \in 1..Len(a) |-> a[i] * b[i]]))

(***************************************************************************)
(* bmv: w @ x.unsqueeze(-1), squeezed.  torch's matmul raises a            *)
(* RuntimeError when w's columns and x's last axis differ.                 *)
(***************************************************************************)
bmv(w, x) ==
    IF Ndim(x) = 1
    THEN IF w.shape[2] # x.shape[1] THEN Raise("RuntimeError")
         ELSE Ok(Vec(Seq1(w.shape[1], LAMBDA i : Dot(w.val[i], x.val))))
    ELSE IF w.shape[2] # x.shape[2] THEN Raise("RuntimeError")
         ELSE Ok(Mat(x.shape[1], w.shape[1],
                     Seq2(x.shape[1], w.shape[1],
                          LAMBDA r, i : Dot(w.val[i], x.val[r]))))

(***************************************************************************)
(* attention and hardAttention.                                            *)
(***************************************************************************)
\* The mask argument: None, or a tensor of booleans.
NoMask == [given |-> FALSE, t |-> NoTensor]
MaskOf(t) == [given |-> TRUE, t |-> t]

\* A tensor's rows: a single vector counts as one row.
RowsOf(t) == IF Ndim(t) = 1 THEN <<t.val>> ELSE t.val

\* A logit is finite (v) or minus infinity.
Fin(v) == [inf |-> FALSE, v |-> v]
NegInf == [inf |-> TRUE, v |-> 0]

\* The preconditions attention and hardAttention check on entry, in the
\* code's order: the exception raised, or "none".  Indexing size() past a
\* tensor's axes raises an IndexError.
AttentionPrecondition(query, keys, vals, mask) ==
    IF Ndim(query) < 1 \/ Ndim(keys) < 1 THEN "IndexError"
    ELSE IF SizeFromEnd(query, 1) # SizeFromEnd(keys, 1) THEN "TypeError"
    ELSE IF Ndim(keys) < 2 \/ Ndim(vals) < 2 THEN "IndexError"
    ELSE IF SizeFromEnd(keys, 2) # SizeFromEnd(vals, 2) THEN "TypeError"
    ELSE IF ~mask.given THEN "none"
    ELSE IF Ndim(query) >= 2 /\ Ndim(mask.t) < 2 THEN "IndexError"
    ELSE IF Ndim(query) >= 2 /\ SizeFromEnd(mask.t, 2) # SizeFromEnd(query, 2)
         THEN "TypeError"
    ELSE IF Ndim(mask.t) < 1 THEN "IndexError"
    ELSE IF SizeFromEnd(mask.t, 1) # SizeFromEnd(keys, 2) THEN "TypeError"
    ELSE "none"

\* query @ keys.transpose(-2, -1) / sqrt(d): one row of logits per query,
\* in units of 1/sqrt(d).
Logits(query, keys) ==
    Seq2(Len(RowsOf(query)), keys.shape[1],
         LAMBDA i, j : Fin(Dot(RowsOf(query)[i], keys.val[j])))

\* A mutant of the fill: the positions the mask leaves out are filled.
MaskedFillInverted(logits, mask) ==
    Seq1(Len(logits), LAMBDA i :
        Seq1(Len(logits[i]), LAMBDA j :
            IF (IF Ndim(mask) = 1 THEN mask.val[j] ELSE mask.val[i][j])
            THEN logits[i][j] ELSE NegInf))

\* logits.masked_fill_(mask, -inf), the mask broadcast over the rows.
MaskedFill(logits, mask) ==
    Seq1(Len(logits), LAMBDA i :
        Seq1(Len(logits[i]), LAMBDA j :
            IF (IF Ndim(mask) = 1 THEN mask.val[j] ELSE mask.val[i][j])
            THEN NegInf ELSE logits[i][j]))

\* masked_fill_ works in place: the mask must broadcast to the logits' own
\* shape, or a RuntimeError is raised.
MaskBroadcasts(query, mask) == Ndim(mask) <= Ndim(query)

\* logits / temp, for a temperature temp = <<p, q>> meaning p/q with p = 1.
DivTemp(logits, temp) ==
    Seq1(Len(logits), LAMBDA i :
        Seq1(Len(logits[i]), LAMBDA j :
            IF logits[i][j].inf THEN NegInf
            ELSE Fin((logits[i][j].v * temp[2]) \div temp[1])))

MinOf(S) == CHOOSE x \in S : \A y \in S : x <= y

\* softmax over one row: exp shifted by the least finite logit; a row with
\* no finite logit is all NaN.
SoftmaxRow(row) ==
    LET fin == {j \in 1..Len(row) : ~row[j].inf}
    IN IF fin = {} THEN Seq1(Len(row), LAMBDA j : NaN)
       ELSE LET mn == MinOf({row[j].v : j \in fin})
                w == Seq1(Len(row), LAMBDA j :
                        IF row[j].inf THEN 0 ELSE Pow(2, row[j].v - mn))
                den == SumInts(w)
            IN Seq1(Len(row), LAMBDA j : Rat(w[j], den))

Softmax(logits) == Seq1(Len(logits), LAMBDA i : SoftmaxRow(logits[i]))

\* The attention weights of lines 278-281.
AttnWeights(query, keys, mask, temp) ==
    LET logits == Logits(query, keys)
        filled == IF mask.given THEN MaskedFill(logits, mask.t) ELSE logits
    IN Softmax(DivTemp(filled, temp))

\* weights @ vals, shaped like the query (a vector, or one row per query).
WeightedSum(query, weights, vals) ==
    LET rows == Seq2(Len(weights), vals.shape[2], LAMBDA i, c :
                      SumRats(Seq1(vals.shape[1], LAMBDA j :
                                  RatMulInt(weights[i][j], vals.val[j][c]))))
    IN IF Ndim(query) = 1 THEN Vec(rows[1])
       ELSE Mat(query.shape[1], vals.shape[2], rows)

attention(query, keys, vals, mask, temp) ==
    LET pre == AttentionPrecondition(query, keys, vals, mask)
    IN IF pre # "none" THEN Raise(pre)
       ELSE IF mask.given /\ ~MaskBroadcasts(query, mask.t) THEN Raise("RuntimeError")
       ELSE Ok(WeightedSum(query, AttnWeights(query, keys, mask, temp), vals))

\* Whether rational p exceeds rational q (neither NaN).
RatGreater(p, q) == p[1] * q[2] > q[1] * p[2]

\* torch.argmax over one row, as a 0-based index: the first maximal entry;
\* NaN counts as maximal.
IsMaxAt(row, j) ==
    \A k \in 1..Len(row) :
        row[j] = NaN \/ (row[k] # NaN /\ ~RatGreater(row[k], row[j]))
ArgmaxRow(row) == MinOf({j \in 1..Len(row) : IsMaxAt(row, j)}) - 1

\* choices = argmax(aweights, dim=1).float(): one index per query.
ArgmaxChoices(weights) == Seq1(Len(weights), LAMBDA i : ArgmaxRow(weights[i]))

\* choices @ vals for the vector of indices: sum over i of choices[i] * vals[i].
ChoicesTimesVals(choices, vals) ==
    Vec(Seq1(vals.shape[2], LAMBDA c :
            Rat(SumInts(Seq1(Len(choices), LAMBDA i : choices[i] * vals.val[i][c])), 1)))

\* (one-hot rows) @ vals for a hard Gumbel sample sel: query i takes row sel[i].
OneHotTimesVals(query, sel, vals) ==
    Mat(query.shape[1], vals.shape[2],
        Seq2(query.shape[1], vals.shape[2],
             LAMBDA i, c : Rat(vals.val[sel[i]][c], 1)))

\* hardAttention; sel is the outcome of the Gumbel sample (one key per query),
\* read only when gumbel is true.
hardAttention(query, keys, vals, mask, gumbel, sel) ==
    LET pre == AttentionPrecondition(query, keys, vals, mask)
    IN IF pre # "none" THEN Raise(pre)
       ELSE IF mask.given /\ ~MaskBroadcasts(query, mask.t) THEN Raise("RuntimeError")
       ELSE IF Ndim(query) = 1 THEN Raise("IndexError")
       ELSE IF gumbel THEN Ok(OneHotTimesVals(query, sel, vals))
       ELSE IF query.shape[1] # vals.shape[1] THEN Raise("RuntimeError")
       ELSE Ok(ChoicesTimesVals(
                  ArgmaxChoices(AttnWeights(query, keys, mask, <<1, 1>>)), vals))

(***************************************************************************)
(* The attention layers.  A layer p holds dims and the square parameter     *)
(* matrices W_Q, W_K, W_V.                                                  *)
(***************************************************************************)
\* outputs + inputs: the residual connection, entry by entry.
AddResidual(out, inp) ==
    IF Ndim(inp) = 1
    THEN Vec(Seq1(inp.shape[1], LAMBDA c : RatAdd(out.val[c], Rat(inp.val[c], 1))))
    ELSE Mat(inp.shape[1], inp.shape[2],
             Seq2(inp.shape[1], inp.shape[2],
                  LAMBDA i, c : RatAdd(out.val[i][c], Rat(inp.val[i][c], 1))))

\* Mutants of the causal mask: one that excludes nothing, one that also
\* excludes the query's own position.
CausalMaskNone(n) == Mat(n, n, Seq2(n, n, LAMBDA i, j : FALSE))
CausalMaskInclusive(n) ==
    LET arange == Seq1(n, LAMBDA k : k - 1)
    IN Mat(n, n, Seq2(n, n, LAMBDA i, j : arange[i] <= arange[j]))

\* torch.arange(n).unsqueeze(1) < torch.arange(n)
CausalMask(n) ==
    LET arange == Seq1(n, LAMBDA k : k - 1)
    IN Mat(n, n, Seq2(n, n, LAMBDA i, j : arange[i] < arange[j]))

MaskedSelfAttentionLayer_start(p) == Mat(0, p.dims, <<>>)

\* A mutant of the concatenation: the new input goes first.
MaskedCatFront(prev_inps, inp) ==
    IF Ndim(prev_inps) # Ndim(inp) + 1 THEN Raise("RuntimeError")
    ELSE IF Ndim(inp) # 1 \/ prev_inps.shape[2] # inp.shape[1]
         THEN Raise("RuntimeError")
    ELSE Ok(Mat(prev_inps.shape[1] + 1, inp.shape[1],
                <<inp.val>> \o prev_inps.val))

\* torch.cat([prev_inps, inp.unsqueeze(0)], dim=0): the tensors must have the
\* same number of axes and agree on every axis but the first.
MaskedCat(prev_inps, inp) ==
    IF Ndim(prev_inps) # Ndim(inp) + 1 THEN Raise("RuntimeError")
    ELSE IF Ndim(inp) # 1 \/ prev_inps.shape[2] # inp.shape[1]
         THEN Raise("RuntimeError")
    ELSE Ok(Mat(prev_inps.shape[1] + 1, inp.shape[1],
                Append(prev_inps.val, inp.val)))

\* step returns (inputs, output): [err, state, out].
StepRaise(e) == [err |-> e, state |-> NoTensor, out |-> NoTensor]

MaskedSelfAttentionLayer_step(p, prev_inps, inp) ==
    LET inputs == MaskedCat(prev_inps, inp)
        query == bmv(p.W_Q, inp)
    IN IF inputs.err # "none" THEN StepRaise(inputs.err)
       ELSE IF query.err # "none" THEN StepRaise(query.err)
       ELSE LET keys == bmv(p.W_K, inputs.out)
                values == bmv(p.W_V, inputs.out)
                output == attention(query.out, keys.out, values.out, NoMask, <<1, 1>>)
            IN IF output.err # "none" THEN StepRaise(output.err)
               ELSE [err |-> "none", state |-> inputs.out,
                     out |-> AddResidual(output.out, inp)]

MaskedSelfAttentionLayer_forward(p, inputs) ==
    IF Ndim(inputs) < 2 THEN Raise("TypeError")
    ELSE IF SizeFromEnd(inputs, 1) # p.dims THEN Raise("TypeError")
    ELSE LET n == SizeFromEnd(inputs, 2)
             queries == bmv(p.W_Q, inputs)
             keys == bmv(p.W_K, inputs)
             values == bmv(p.W_V, inputs)
             outputs == attention(queries.out, keys.out, values.out,
                                  MaskOf(CausalMask(n)), <<1, 1>>)
         IN IF outputs.err # "none" THEN outputs
            ELSE Ok(AddResidual(outputs.out, inputs))

(***************************************************************************)
(* MaskedSelfAttentionLayerTemp: the masked layer whose forward divides the *)
(* logits by the temperature 1/n^3.                                         *)
(***************************************************************************)
\* A mutant of the temperature: forward runs at temperature 1.
TemperatureOne(n) == <<1, 1>>

\* temp = 1/(n**3), for n >= 1.
Temperature(n) == <<1, n * n * n>>

MaskedSelfAttentionLayerTemp_start(p) == Mat(0, p.dims, <<>>)

\* step calls attention with its default arguments: no mask, temp = 1.
MaskedSelfAttentionLayerTemp_step(p, prev_inps, inp) ==
    LET inputs == MaskedCat(prev_inps, inp)
        query == bmv(p.W_Q, inp)
    IN IF inputs.err # "none" THEN StepRaise(inputs.err)
       ELSE IF query.err # "none" THEN StepRaise(query.err)
       ELSE LET keys == bmv(p.W_K, inputs.out)
                values == bmv(p.W_V, inputs.out)
                output == attention(query.out, keys.out, values.out, NoMask, <<1, 1>>)
            IN IF output.err # "none" THEN StepRaise(output.err)
               ELSE [err |-> "none", state |-> inputs.out,
                     out |-> AddResidual(output.out, inp)]

\* On the empty sequence n**3 is 0 and 1/(n**3) raises a ZeroDivisionError.
MaskedSelfAttentionLayerTemp_forward(p, inputs) ==
    IF Ndim(inputs) < 2 THEN Raise("TypeError")
    ELSE IF SizeFromEnd(inputs, 1) # p.dims THEN Raise("TypeError")
    ELSE LET n == SizeFromEnd(inputs, 2)
             queries == bmv(p.W_Q, inputs)
             keys == bmv(p.W_K, inputs)
             values == bmv(p.W_V, inputs)
         IN IF n = 0 THEN Raise("ZeroDivisionError")
            ELSE LET outputs == attention(queries.out, keys.out, values.out,
                                          MaskOf(CausalMask(n)), Temperature(n))
                 IN IF outputs.err # "none" THEN outputs
                    ELSE Ok(AddResidual(outputs.out, inputs))

(***************************************************************************)
(* In-place writes.  A call changes a parameter only by writing in place    *)
(* into a tensor that shares the parameter's storage.  The one in-place     *)
(* operation of the layers is logits.masked_fill_ in attention and          *)
(* hardAttention.                                                           *)
(***************************************************************************)
\* A mutant of the logits' storage: the logits are a view of the layer's W_K.
LogitsStorageKeys == "W_K"

\* The storage of logits: query @ keys.transpose(-2, -1) / math.sqrt(d)
\* makes a new tensor, which shares storage with no parameter.
LogitsStorage == "logits"

\* The storages a call of attention writes in place: masked_fill_ runs when
\* the preconditions hold, a mask is given, and the mask broadcasts.
AttentionWrites(query, keys, vals, mask) ==
    IF AttentionPrecondition(query, keys, vals, mask) # "none" THEN {}
    ELSE IF ~mask.given THEN {}
    ELSE IF ~MaskBroadcasts(query, mask.t) THEN {}
    ELSE {LogitsStorage}

\* A tensor after an in-place fill: its shape is kept, its entries are
\* replaced (0 stands for the value written).
Overwritten(t) ==
    IF Ndim(t) = 1 THEN Vec(Seq1(t.shape[1], LAMBDA i : 0))
    ELSE Mat(t.shape[1], t.shape[2], Seq2(t.shape[1], t.shape[2], LAMBDA i, j : 0))

\* The layer p after a call that wrote into the storages in written: the
\* parameters among them are overwritten, every other field is kept.
LayerAfter(p, written) ==
    [k \in DOMAIN p |-> IF k \in written THEN Overwritten(p[k]) ELSE p[k]]

\* What MaskedSelfAttentionLayer.forward writes in place.
MaskedForwardWrites(p, inputs) ==
    IF Ndim(inputs) < 2 THEN {}
    ELSE IF SizeFromEnd(inputs, 1) # p.dims THEN {}
    ELSE AttentionWrites(bmv(p.W_Q, inputs).out, bmv(p.W_K, inputs).out,
                         bmv(p.W_V, inputs).out,
                         MaskOf(CausalMask(SizeFromEnd(inputs, 2))))

\* What MaskedSelfAttentionLayerTemp.forward writes in place: on the empty
\* sequence it raises before attention is called.
TempForwardWrites(p, inputs) ==
    IF Ndim(inputs) < 2 THEN {}
    ELSE IF SizeFromEnd(inputs, 1) # p.dims THEN {}
    ELSE IF SizeFromEnd(inputs, 2) = 0 THEN {}
    ELSE AttentionWrites(bmv(p.W_Q, inputs).out, bmv(p.W_K, inputs).out,
                         bmv(p.W_V, inputs).out,
                         MaskOf(CausalMask(SizeFromEnd(inputs, 2))))

(***************************************************************************)
(* RNN.  A layer p holds dims, h0, W_hi, W_hh and b.                        *)
(***************************************************************************)
\* tanh on integers, rounded to the nearest integer: it saturates at -1, 1.
Tanh(z) == IF z > 0 THEN 1 ELSE IF z < 0 THEN -1 ELSE 0

RNN_start(p) == p.h0

RNN_step(p, state, inp) ==
    IF SizeFromEnd(state, 1) # p.dims THEN StepRaise("TypeError")
    ELSE IF SizeFromEnd(inp, 1) # p.dims THEN StepRaise("TypeError")
    ELSE LET hi == bmv(p.W_hi, inp).out
             hh == bmv(p.W_hh, state).out
             new == Vec(Seq1(p.dims, LAMBDA c :
                        Tanh(hi.val[c] + hh.val[c] + p.b.val[c])))
         IN [err |-> "none", state |-> new,
             out |-> Vec(Seq1(p.dims, LAMBDA c : new.val[c] + inp.val[c]))]

\* The loop of forward over the rows not yet read: h threads the state,
\* outputs collects each step's output; a step that raises ends the call.
RECURSIVE RNN_forward_loop(_, _, _, _)
RNN_forward_loop(p, h, rows, outputs) ==
    IF rows = <<>> THEN [err |-> "none", outputs |-> outputs]
    ELSE LET r == RNN_step(p, h, Vec(Head(rows)))
         IN IF r.err # "none" THEN [err |-> r.err, outputs |-> outputs]
            ELSE RNN_forward_loop(p, r.state, Tail(rows), Append(outputs, r.out))

\* torch.stack(outputs): a new leading axis; an empty list raises a
\* RuntimeError (stack expects a non-empty TensorList).
Stack(outputs, d) ==
    IF outputs = <<>> THEN Raise("RuntimeError")
    ELSE Ok(Mat(Len(outputs), d, Seq1(Len(outputs), LAMBDA i : outputs[i].val)))

RNN_forward(p, inputs) ==
    IF Ndim(inputs) # 2 THEN Raise("TypeError")
    ELSE IF inputs.shape[2] # p.dims THEN Raise("TypeError")
    ELSE LET run == RNN_forward_loop(p, RNN_start(p), inputs.val, <<>>)
         IN IF run.err # "none" THEN Raise(run.err)
            ELSE Stack(run.outputs, p.dims)

(***************************************************************************)
(* Embedding.  A layer p holds the table W (vocab_size rows).  An input is  *)
(* a Python int or float ([kind, v]) or a tensor of ids ([kind, dtype, t]). *)
(***************************************************************************)
\* isinstance(inp, int) or inp.dtype in [torch.int32, torch.int64]: a Python
\* float has no attribute dtype, and reading it raises an AttributeError.
EmbeddingTypeCheck(inp) ==
    IF inp.kind = "int" THEN "none"
    ELSE IF inp.kind = "float" THEN "AttributeError"
    ELSE IF inp.dtype \in {"int32", "int64"} THEN "none"
    ELSE "TypeError"

\* The integer square root of a perfect square.
ISqrt(n) == CHOOSE r \in 0..n : r * r = n

\* torch.nn.functional.normalize(row, dim=-1): the row over its Euclidean
\* norm (a zero row stays zero).  The tables of the model have rows of
\* integral norm.
Normalize(row) ==
    LET norm == ISqrt(SumInts(Seq1(Len(row), LAMBDA c : row[c] * row[c])))
    IN Seq1(Len(row), LAMBDA c : IF norm = 0 THEN <<0, 1>> ELSE Rat(row[c], norm))

\* An id k indexes row k of a table of n rows, a negative one from the end.
InRange(k, n) == -n <= k /\ k < n
RowAt(W, k) == W.val[(IF k < 0 THEN k + W.shape[1] ELSE k) + 1]

Embedding_forward(p, inp) ==
    LET check == EmbeddingTypeCheck(inp)
    IN IF check # "none" THEN Raise(check)
       ELSE IF inp.kind = "int"
       THEN IF ~InRange(inp.v, p.W.shape[1]) THEN Raise("IndexError")
            ELSE Ok(Vec(Normalize(RowAt(p.W, inp.v))))
       ELSE IF \E i \in 1..Len(inp.t.val) : ~InRange(inp.t.val[i], p.W.shape[1])
            THEN Raise("IndexError")
       ELSE Ok(Mat(inp.t.shape[1], p.W.shape[2],
                   Seq1(inp.t.shape[1], LAMBDA i : Normalize(RowAt(p.W, inp.t.val[i])))))

(***************************************************************************)
(* LinearLayer.  A layer p holds W (output_dims x input_dims), b, residual. *)
(***************************************************************************)
\* The result of a constructor: [err, layer].
NoLayer == [dims |-> 0]
Built(layer) == [err |-> "none", layer |-> layer]
InitRaise(e) == [err |-> e, layer |-> NoLayer]

\* A mutant of the constructor's check: the residual flag is not consulted.
ResidualMismatchAlways(input_dims, output_dims, residual) ==
    input_dims # output_dims

\* residual and input_dims != output_dims
ResidualMismatch(input_dims, output_dims, residual) ==
    residual /\ input_dims # output_dims

\* W and b are the values the random initialisation produced.
LinearLayer_init(input_dims, output_dims, residual, W, b) ==
    IF ResidualMismatch(input_dims, output_dims, residual) THEN InitRaise("ValueError")
    ELSE Built([residual |-> residual, W |-> W, b |-> b])

LinearLayer_forward(p, inp) ==
    LET input_dims == SizeFromEnd(p.W, 1)
    IN IF SizeFromEnd(inp, 1) # input_dims THEN Raise("TypeError")
       ELSE LET wx == bmv(p.W, inp).out
            IN IF Ndim(inp) = 1
               THEN Ok(Vec(Seq1(wx.shape[1], LAMBDA c :
                        wx.val[c] + p.b.val[c]
                          + (IF p.residual THEN inp.val[c] ELSE 0))))
               ELSE Ok(Mat(wx.shape[1], wx.shape[2],
                        Seq2(wx.shape[1], wx.shape[2], LAMBDA i, c :
                            wx.val[i][c] + p.b.val[c]
                              + (IF p.residual THEN inp.val[i][c] ELSE 0))))

(***************************************************************************)
(* SoftmaxLayer.  A layer p holds W (output_dims x input_dims).  The values *)
(* of log_softmax are not modelled: the result carries its shape only.      *)
(***************************************************************************)
ShapeOnly(sh) == [shape |-> sh, val |-> <<>>]

SoftmaxLayer_forward(p, inp) ==
    LET input_dims == SizeFromEnd(p.W, 1)
    IN IF SizeFromEnd(inp, 1) # input_dims THEN Raise("TypeError")
       ELSE Ok(ShapeOnly(SubSeq(inp.shape, 1, Len(inp.shape) - 1) \o <<p.W.shape[1]>>))

(***************************************************************************)
(* The other attention layers, the multi-head layer and the FFN.            *)
(***************************************************************************)
SelfAttentionLayer_forward(p, inputs) ==
    IF Ndim(inputs) < 2 THEN Raise("TypeError")
    ELSE IF SizeFromEnd(inputs, 1) # p.dims THEN Raise("TypeError")
    ELSE LET outputs == attention(bmv(p.W_Q, inputs).out, bmv(p.W_K, inputs).out,
                                  bmv(p.W_V, inputs).out, NoMask, <<1, 1>>)
         IN IF outputs.err # "none" THEN outputs
            ELSE Ok(AddResidual(outputs.out, inputs))

\* outputs + inputs where outputs is one vector: it is added to every row.
AddToEveryRow(vec, inputs) ==
    Mat(inputs.shape[1], inputs.shape[2],
        Seq2(inputs.shape[1], inputs.shape[2],
             LAMBDA i, c : RatAdd(vec.val[c], Rat(inputs.val[i][c], 1))))

HardSelfAttentionLayer_forward(p, inputs, gumbel, sel) ==
    IF Ndim(inputs) < 2 THEN Raise("TypeError")
    ELSE IF SizeFromEnd(inputs, 1) # p.dims THEN Raise("TypeError")
    ELSE LET outputs == hardAttention(bmv(p.W_Q, inputs).out, bmv(p.W_K, inputs).out,
                                      bmv(p.W_V, inputs).out, NoMask, gumbel, sel)
         IN IF outputs.err # "none" THEN outputs
            ELSE IF Ndim(outputs.out) = 1 THEN Ok(AddToEveryRow(outputs.out, inputs))
            ELSE Ok(AddResidual(outputs.out, inputs))

CrossAttentionLayer_forward(p, finputs, einputs) ==
    IF Ndim(finputs) < 2 THEN Raise("TypeError")
    ELSE IF SizeFromEnd(finputs, 1) # p.dims THEN Raise("TypeError")
    ELSE IF SizeFromEnd(einputs, 1) # p.dims THEN Raise("TypeError")
    ELSE LET outputs == attention(bmv(p.W_Q, einputs).out, bmv(p.W_K, finputs).out,
                                  bmv(p.W_V, finputs).out, NoMask, <<1, 1>>)
         IN IF outputs.err # "none" THEN outputs
            ELSE Ok(AddResidual(outputs.out, einputs))

\* sum([h(inp) for h in self.heads]) / len(self.heads): the first head that
\* raises ends the call; with no head the division is 0 / 0.
RECURSIVE SumHeads(_, _, _)
SumHeads(heads, inp, acc) ==
    IF heads = <<>> THEN Ok(acc)
    ELSE LET r == SelfAttentionLayer_forward(Head(heads), inp)
         IN IF r.err # "none" THEN r
            ELSE SumHeads(Tail(heads), inp,
                          Mat(inp.shape[1], inp.shape[2],
                              Seq2(inp.shape[1], inp.shape[2], LAMBDA i, c :
                                  RatAdd(acc.val[i][c], r.out.val[i][c]))))

RatDivInt(q, k) == IF q = NaN THEN NaN ELSE Rat(q[1], q[2] * k)

MHSelfAttentionLayer_forward(heads, inp) ==
    LET zero == IF Ndim(inp) = 2
                THEN Mat(inp.shape[1], inp.shape[2],
                         Seq2(inp.shape[1], inp.shape[2], LAMBDA i, c : <<0, 1>>))
                ELSE NoTensor
        total == SumHeads(heads, inp, zero)
    IN IF total.err # "none" THEN total
       ELSE IF Len(heads) = 0 THEN Raise("ZeroDivisionError")
       ELSE Ok(Mat(inp.shape[1], inp.shape[2],
                   Seq2(inp.shape[1], inp.shape[2], LAMBDA i, c :
                       RatDivInt(total.out.val[i][c], Len(heads)))))

Relu(z) == IF z > 0 THEN z ELSE 0

\* relu entry by entry, of a vector or of the rows of a matrix.
ReluOf(t) ==
    IF Ndim(t) = 1 THEN Vec(Seq1(t.shape[1], LAMBDA c : Relu(t.val[c])))
    ELSE Mat(t.shape[1], t.shape[2],
             Seq2(t.shape[1], t.shape[2], LAMBDA i, c : Relu(t.val[i][c])))

\* inp + out along the last axis: sizes must agree, or one of them be 1
\* (broadcast), or the addition raises a RuntimeError.
AddLastAxis(inp, out) ==
    LET a == SizeFromEnd(inp, 1)
        b == SizeFromEnd(out, 1)
        w == IF a >= b THEN a ELSE b
        at(row, c) == IF Len(row) = 1 THEN row[1] ELSE row[c]
    IN IF a # b /\ a # 1 /\ b # 1 THEN Raise("RuntimeError")
       ELSE IF Ndim(inp) = 1
       THEN Ok(Vec(Seq1(w, LAMBDA c : at(inp.val, c) + at(out.val, c))))
       ELSE Ok(Mat(inp.shape[1], w,
                   Seq2(inp.shape[1], w, LAMBDA i, c :
                       at(inp.val[i], c) + at(out.val[i], c))))

\* A layer p holds lin1, lin2 and residual.
FFN_forward(p, inp) ==
    LET h == LinearLayer_forward(p.lin1, inp)
    IN IF h.err # "none" THEN h
       ELSE LET out == LinearLayer_forward(p.lin2, ReluOf(h.out))
            IN IF out.err # "none" THEN out
               ELSE IF p.residual THEN AddLastAxis(inp, out.out)
               ELSE out

(***************************************************************************)
(* Parameters and inputs the model draws from.                             *)
(***************************************************************************)
\* d x d matrices: the identity, and the matrix with 1 on the diagonal and
\* -1 above it.
IdentityMat(d) == Mat(d, d, Seq2(d, d, LAMBDA i, j : IF i = j THEN 1 ELSE 0))
ShearMat(d) ==
    Mat(d, d, Seq2(d, d, LAMBDA i, j :
                  IF i = j THEN 1 ELSE IF i < j THEN -1 ELSE 0))
NegMat(d) == Mat(d, d, Seq2(d, d, LAMBDA i, j : IF i = j THEN -1 ELSE 0))
MatChoices(d) == {IdentityMat(d), ShearMat(d), NegMat(d)}

\* AttentionLayer.__init__(dims): three independent square matrices.
AttentionLayers ==
    UNION {[dims : {d}, W_Q : MatChoices(d), W_K : {IdentityMat(d), NegMat(d)},
            W_V : {IdentityMat(d), ShearMat(d)}] : d \in DimsChoices}

\* Vectors of size d over Vals, as tensors.
Vectors(d) == {Vec(AsSeq(v)) : v \in [1..d -> Vals]}
AllVectors == UNION {Vectors(d) : d \in DimsChoices}

NoCall == [op |-> "none"]

\* RNN.__init__(dims): h0, W_hi, W_hh, b.
RNNLayers ==
    UNION {[dims : {d},
            h0 : {Vec(Seq1(d, LAMBDA i : 0)), Vec(Seq1(d, LAMBDA i : 1))},
            W_hi : {IdentityMat(d), ShearMat(d)},
            W_hh : {IdentityMat(d), NegMat(d)},
            b : {Vec(Seq1(d, LAMBDA i : 0)), Vec(Seq1(d, LAMBDA i : i - 1))}]
           : d \in DimsChoices}

\* The parameters of a layer that a specification does not construct.
NoRNN == [dims |-> 0]
NoAttn == [dims |-> 0]

(***************************************************************************)
(* The masked self-attention layer under its two call modes: a decoding     *)
(* driver threads start()/step(), and forward() is run on a whole sequence. *)
(***************************************************************************)
\* The sequences forward is run on: the driver's inputs so far as one tensor,
\* a single vector, and a sequence whose vectors have another size.
ForwardInputs(p, hist) ==
    {Mat(Len(hist), p.dims, hist)}
        \cup {Vec(Seq1(p.dims, LAMBDA i : 1))}
        \cup {Mat(1, d, <<Seq1(d, LAMBDA i : 1)>>) : d \in DimsChoices \ {p.dims}}

\* The attention weights forward's call of attention computes (ghost).
MaskedForwardWeights(p, inputs) ==
    AttnWeights(bmv(p.W_Q, inputs).out, bmv(p.W_K, inputs).out,
                MaskOf(CausalMask(SizeFromEnd(inputs, 2))), <<1, 1>>)

InitMasked ==
    /\ params \in [attn : AttentionLayers, rnn : {NoRNN}]
    /\ mstate = MaskedSelfAttentionLayer_start(params.attn)
    /\ mhist = <<>>
    /\ mouts = <<>>
    /\ rstate = NoTensor
    /\ rhist = <<>>
    /\ routs = <<>>
    /\ call = NoCall

MaskedStart ==
    /\ call.op # "none"
    /\ mstate' = MaskedSelfAttentionLayer_start(params.attn)
    /\ mhist' = <<>>
    /\ mouts' = <<>>
    /\ call' = [op |-> "MaskedSelfAttentionLayer.start", ret |-> Ok(mstate')]
    /\ UNCHANGED <<params, rstate, rhist, routs>>

MaskedStep ==
    /\ Len(mhist) < MaxLen
    /\ \E inp \in AllVectors :
         LET r == MaskedSelfAttentionLayer_step(params.attn, mstate, inp)
         IN /\ call' = [op |-> "MaskedSelfAttentionLayer.step",
                        state |-> mstate, inp |-> inp, ret |-> r]
            /\ IF r.err = "none"
               THEN /\ mstate' = r.state
                    /\ mhist' = Append(mhist, inp.val)
                    /\ mouts' = Append(mouts, r.out)
               ELSE UNCHANGED <<mstate, mhist, mouts>>
    /\ UNCHANGED <<params, rstate, rhist, routs>>

MaskedForward ==
    /\ \E x \in ForwardInputs(params.attn, mhist) :
         LET r == MaskedSelfAttentionLayer_forward(params.attn, x)
         IN call' = [op |-> "MaskedSelfAttentionLayer.forward", inputs |-> x,
                     mask |-> IF r.err = "none"
                              THEN CausalMask(SizeFromEnd(x, 2)) ELSE NoTensor,
                     weights |-> IF r.err = "none"
                                 THEN MaskedForwardWeights(params.attn, x)
                                 ELSE <<>>,
                     ret |-> r]
    /\ UNCHANGED <<params, mstate, mhist, mouts, rstate, rhist, routs>>

NextMasked == MaskedStart \/ MaskedStep \/ MaskedForward

SpecMasked == InitMasked /\ [][NextMasked]_vars

\* The last call was forward, run on the sequence the driver has fed to step.
ForwardOnDriverInputs ==
    /\ call.op = "MaskedSelfAttentionLayer.forward"
    /\ call.inputs.shape = mstate.shape
    /\ call.inputs.val = mstate.val

\* C1: MaskedSelfAttentionLayer consistency.  Whenever forward is run on the
\* sequence x[0..n-1] (n >= 1) that the driver fed one by one through
\* start()/step(), forward succeeds and its vector at position i equals the
\* output the (i+1)-th step call returned, for every i.
C1_ForwardEqualsSteps ==
    (ForwardOnDriverInputs /\ Len(mhist) >= 1) =>
        /\ call.ret.err = "none"
        /\ call.ret.out.shape = <<Len(mhist), params.attn.dims>>
        /\ Len(mouts) = Len(mhist)
        /\ \A i \in 1..Len(mhist) :
              /\ mouts[i].shape = <<params.attn.dims>>
              /\ call.ret.out.val[i] = mouts[i].val

\* A forward call on a driver sequence of full length in which the last
\* position attends unevenly to three different keys.
C1_Witness ==
    /\ ForwardOnDriverInputs
    /\ Len(mhist) = 3
    /\ call.ret.err = "none"
    /\ call.weights[3][1] # call.weights[3][2]
    /\ call.weights[3][2] # call.weights[3][3]
    /\ call.ret.out.val[3] = mouts[3].val
    /\ call.ret.out.val[1] # call.ret.out.val[3]

\* C7: in MaskedSelfAttentionLayer.forward on a sequence of length n the mask
\* entry (i, j) is true (excluded) iff j > i, query i gives positive weight
\* to exactly the keys j <= i, and no query row has all of its keys excluded.
C7_CausalMaskExact ==
    (call.op = "MaskedSelfAttentionLayer.forward" /\ call.ret.err = "none") =>
        LET n == call.inputs.shape[1]
        IN /\ call.mask.shape = <<n, n>>
           /\ \A i \in 1..n :
                 /\ \A j \in 1..n :
                       /\ call.mask.val[i][j] <=> (j > i)
                       /\ call.weights[i][j] # NaN
                       /\ (call.weights[i][j][1] > 0) <=> (j <= i)
                 /\ \E j \in 1..n : ~call.mask.val[i][j]

\* A forward call on three positions: the first query sees one key only, the
\* last sees all three.
C7_Witness ==
    /\ call.op = "MaskedSelfAttentionLayer.forward"
    /\ call.ret.err = "none"
    /\ call.inputs.shape[1] = 3
    /\ call.mask.val[1][2] /\ call.mask.val[1][3] /\ ~call.mask.val[3][1]
    /\ call.weights[1] = <<(<<1, 1>>), (<<0, 1>>), (<<0, 1>>)>>
    /\ call.weights[3][1][1] > 0

\* C10: the state of the incremental mode.  start() returns the empty
\* sequence of shape (0, dims); after k successful step calls threaded from
\* start() the state is exactly the k inputs in call order; a step appends
\* its input at the end and the state it was given is the prefix before it.
C10_StateIsInputHistory ==
    /\ mstate.shape = <<Len(mhist), params.attn.dims>>
    /\ mstate.val = mhist
    /\ (call.op = "MaskedSelfAttentionLayer.start") =>
          (call.ret.out = Mat(0, params.attn.dims, <<>>) /\ mstate = call.ret.out)
    /\ (call.op = "MaskedSelfAttentionLayer.step" /\ call.ret.err = "none") =>
          /\ call.ret.state = mstate
          /\ mstate.shape[1] = call.state.shape[1] + 1
          /\ call.state.val = SubSeq(mstate.val, 1, Len(mstate.val) - 1)
          /\ mstate.val[Len(mstate.val)] = call.inp.val

\* Three steps taken, the first and last inputs different.
C10_Witness ==
    /\ call.op = "MaskedSelfAttentionLayer.step"
    /\ call.ret.err = "none"
    /\ Len(mhist) = 3
    /\ mhist[1] # mhist[3]
    /\ mstate.val = mhist

(***************************************************************************)
(* MaskedSelfAttentionLayerTemp under its two call modes: a driver threads  *)
(* start()/step(), and forward() is run on the driver's sequence.           *)
(***************************************************************************)
\* The logits forward hands to softmax on the sequence x of n >= 1 vectors:
\* masked, and divided by 1/n^3.
TempForwardLogits(p, x) ==
    LET n == SizeFromEnd(x, 2)
    IN DivTemp(MaskedFill(Logits(bmv(p.W_Q, x).out, bmv(p.W_K, x).out),
                          CausalMask(n)),
               <<1, n * n * n>>)

\* forward is run on x when it raises before the softmax, or the logits of
\* each row lie within MaxExponent of each other.
TempExponentsFit(p, x) ==
    IF Ndim(x) < 2 THEN TRUE
    ELSE IF SizeFromEnd(x, 1) # p.dims \/ SizeFromEnd(x, 2) = 0 THEN TRUE
    ELSE LET l == TempForwardLogits(p, x)
         IN \A i \in 1..Len(l) : \A j \in 1..Len(l[i]), k \in 1..Len(l[i]) :
               (~l[i][j].inf /\ ~l[i][k].inf) => l[i][j].v - l[i][k].v <= MaxExponent

InitTemp ==
    /\ params \in [attn : AttentionLayers, rnn : {NoRNN}]
    /\ mstate = MaskedSelfAttentionLayerTemp_start(params.attn)
    /\ mhist = <<>>
    /\ mouts = <<>>
    /\ rstate = NoTensor
    /\ rhist = <<>>
    /\ routs = <<>>
    /\ call = NoCall

TempStart ==
    /\ call.op # "none"
    /\ mstate' = MaskedSelfAttentionLayerTemp_start(params.attn)
    /\ mhist' = <<>>
    /\ mouts' = <<>>
    /\ call' = [op |-> "MaskedSelfAttentionLayerTemp.start", ret |-> Ok(mstate')]
    /\ UNCHANGED <<params, rstate, rhist, routs>>

TempStep ==
    /\ Len(mhist) < MaxLen
    /\ \E inp \in AllVectors :
         LET r == MaskedSelfAttentionLayerTemp_step(params.attn, mstate, inp)
         IN /\ call' = [op |-> "MaskedSelfAttentionLayerTemp.step",
                        state |-> mstate, inp |-> inp, ret |-> r]
            /\ IF r.err = "none"
               THEN /\ mstate' = r.state
                    /\ mhist' = Append(mhist, inp.val)
                    /\ mouts' = Append(mouts, r.out)
               ELSE UNCHANGED <<mstate, mhist, mouts>>
    /\ UNCHANGED <<params, rstate, rhist, routs>>

TempForward ==
    /\ \E x \in ForwardInputs(params.attn, mhist) :
         /\ TempExponentsFit(params.attn, x)
         /\ call' = [op |-> "MaskedSelfAttentionLayerTemp.forward", inputs |-> x,
                     ret |-> MaskedSelfAttentionLayerTemp_forward(params.attn, x)]
    /\ UNCHANGED <<params, mstate, mhist, mouts, rstate, rhist, routs>>

NextTemp == TempStart \/ TempStep \/ TempForward

SpecTemp == InitTemp /\ [][NextTemp]_vars

\* Position i of forward's result on inputs at temperature 1/n^3, computed
\* position by position: query i attends to the keys 1..i with its logits
\* multiplied by n^3, and the residual is added.
TemperedRow(p, inputs, i) ==
    LET n == inputs.shape[1]
        prefix == Mat(i, p.dims, SubSeq(inputs.val, 1, i))
        x == Vec(inputs.val[i])
        ctx == attention(bmv(p.W_Q, x).out, bmv(p.W_K, prefix).out,
                         bmv(p.W_V, prefix).out, NoMask, <<1, n * n * n>>)
    IN AddResidual(ctx.out, x).val

\* The same step of MaskedSelfAttentionLayer, on the state and input of the
\* last call.
UntemperedStep == MaskedSelfAttentionLayer_step(params.attn, call.state, call.inp)

\* C11: MaskedSelfAttentionLayerTemp applies the 1/n^3 temperature in
\* forward only.  forward on n >= 1 vectors returns, at each position i, the
\* attention of query i over the keys 1..i with the logits divided by 1/n^3
\* (plus the residual); start and step return what
\* MaskedSelfAttentionLayer.start and step return for the same parameters,
\* state and input: the same exception, or the same (state, output).
C11_TempInForwardOnly ==
    /\ (call.op = "MaskedSelfAttentionLayerTemp.start") =>
          call.ret = Ok(MaskedSelfAttentionLayer_start(params.attn))
    /\ (call.op = "MaskedSelfAttentionLayerTemp.step") =>
          LET untempered == UntemperedStep
          IN /\ call.ret.err = untempered.err
             /\ call.ret.state = untempered.state
             /\ call.ret.out = untempered.out
    /\ (/\ call.op = "MaskedSelfAttentionLayerTemp.forward"
        /\ Ndim(call.inputs) = 2
        /\ call.inputs.shape[2] = params.attn.dims
        /\ call.inputs.shape[1] >= 1) =>
          /\ call.ret.err = "none"
          /\ call.ret.out.shape = call.inputs.shape
          /\ \A i \in 1..call.inputs.shape[1] :
                call.ret.out.val[i] = TemperedRow(params.attn, call.inputs, i)

\* forward on the two vectors the driver fed to step: the second position
\* attends unevenly to its two keys, and at temperature 1/8 its vector is not
\* the one step returned, while the first position (one key) is.
C11_Witness ==
    /\ call.op = "MaskedSelfAttentionLayerTemp.forward"
    /\ call.ret.err = "none"
    /\ Len(mhist) = 2
    /\ call.inputs.shape = mstate.shape
    /\ call.inputs.val = mstate.val
    /\ mouts[2].val = MaskedSelfAttentionLayer_step(
                          params.attn, Mat(1, params.attn.dims, <<mhist[1]>>),
                          Vec(mhist[2])).out.val
    /\ call.ret.out.val[1] = mouts[1].val
    /\ call.ret.out.val[2] # mouts[2].val

(***************************************************************************)
(* The RNN under its two call modes.                                        *)
(***************************************************************************)
InitRNN ==
    /\ params \in [attn : {NoAttn}, rnn : RNNLayers]
    /\ mstate = NoTensor
    /\ mhist = <<>>
    /\ mouts = <<>>
    /\ rstate = RNN_start(params.rnn)
    /\ rhist = <<>>
    /\ routs = <<>>
    /\ call = NoCall

RNNStart ==
    /\ call.op # "none"
    /\ rstate' = RNN_start(params.rnn)
    /\ rhist' = <<>>
    /\ routs' = <<>>
    /\ call' = [op |-> "RNN.start", ret |-> Ok(rstate')]
    /\ UNCHANGED <<params, mstate, mhist, mouts>>

RNNStep ==
    /\ Len(rhist) < MaxLen
    /\ \E inp \in AllVectors :
         LET r == RNN_step(params.rnn, rstate, inp)
         IN /\ call' = [op |-> "RNN.step", state |-> rstate, inp |-> inp, ret |-> r]
            /\ IF r.err = "none"
               THEN /\ rstate' = r.state
                    /\ rhist' = Append(rhist, inp.val)
                    /\ routs' = Append(routs, r.out)
               ELSE UNCHANGED <<rstate, rhist, routs>>
    /\ UNCHANGED <<params, mstate, mhist, mouts>>

RNNForward ==
    /\ \E x \in ForwardInputs(params.rnn, rhist) :
         call' = [op |-> "RNN.forward", inputs |-> x,
                  ret |-> RNN_forward(params.rnn, x)]
    /\ UNCHANGED <<params, mstate, mhist, mouts, rstate, rhist, routs>>

NextRNN == RNNStart \/ RNNStep \/ RNNForward

SpecRNN == InitRNN /\ [][NextRNN]_vars

\* The last call was RNN.forward, run on the sequence the driver has fed to
\* RNN.step since start().
RNNForwardOnDriverInputs ==
    /\ call.op = "RNN.forward"
    /\ call.inputs.shape = <<Len(rhist), params.rnn.dims>>
    /\ call.inputs.val = rhist

\* Forward returned exactly the outputs the driver's step calls returned.
RNNForwardEqualsSteps ==
    /\ call.ret.err = "none"
    /\ call.ret.out.shape = <<Len(rhist), params.rnn.dims>>
    /\ Len(call.ret.out.val) = Len(rhist)
    /\ Len(routs) = Len(rhist)
    /\ \A i \in 1..Len(rhist) : call.ret.out.val[i] = routs[i].val

\* C2: RNN.forward on a two-axis input of length n, for every n >= 0,
\* returns exactly n outputs, the i-th being the output of the i-th of n
\* sequential step calls threaded from start().
C2_ForwardIsStepComposition == RNNForwardOnDriverInputs => RNNForwardEqualsSteps

\* The same for n >= 1 only: this part of C2 holds of the code.
RNNForwardIsStepCompositionNonEmpty ==
    (RNNForwardOnDriverInputs /\ Len(rhist) >= 1) => RNNForwardEqualsSteps

(***************************************************************************)
(* attention and hardAttention as pure functions: the arguments of one     *)
(* call are drawn at the start, and the call is then made.                  *)
(***************************************************************************)
\* Entry (i, j) of the k-th pattern of integer entries.
PatEntry(k, i, j) ==
    CASE k = 1 -> 1
      [] k = 2 -> IF (i + j) % 2 = 0 THEN 1 ELSE -1
      [] k = 3 -> i - 1
      [] OTHER -> j - i
PatMat(k, n, d) == Mat(n, d, Seq2(n, d, LAMBDA i, j : PatEntry(k, i, j)))
PatVec(k, d) == Vec(Seq1(d, LAMBDA j : PatEntry(k, 2, j)))

\* Boolean masks: nothing excluded, the keys after the query's position
\* excluded, everything excluded.
MaskEntry(k, i, j) == CASE k = 1 -> FALSE [] k = 2 -> j > i [] OTHER -> TRUE
MaskMat(k, m, n) == Mat(m, n, Seq2(m, n, LAMBDA i, j : MaskEntry(k, i, j)))
MaskVec(k, n) == Vec(Seq1(n, LAMBDA j : MaskEntry(k, 1, j)))

Queries ==
    {PatVec(k, d) : k \in {2, 3}, d \in DimsChoices}
        \cup {PatMat(k, m, d) : k \in {2, 4}, m \in 1..MaxQueries, d \in DimsChoices}
Keys == {PatMat(k, n, d) : k \in {2, 3, 4}, n \in 1..MaxKeys, d \in DimsChoices}
Values == {PatMat(k, n, 2) : k \in {3, 4}, n \in 1..MaxKeys}
Masks ==
    {NoMask}
        \cup {MaskOf(MaskVec(k, n)) : k \in 1..2, n \in 1..MaxKeys}
        \cup {MaskOf(MaskMat(k, m, n)) : k \in 1..3, m \in 1..MaxQueries, n \in 1..MaxKeys}
\* Temperatures 1 and 1/2.
Temps == {<<1, 1>>, <<1, 2>>}

NoParams == [attn |-> NoAttn, rnn |-> NoRNN]

InitAttention ==
    /\ params = NoParams
    /\ mstate = NoTensor /\ mhist = <<>> /\ mouts = <<>>
    /\ rstate = NoTensor /\ rhist = <<>> /\ routs = <<>>
    /\ \E q \in Queries, k \in Keys, v \in Values, m \in Masks, t \in Temps :
          call = [op |-> "attention", done |-> FALSE, query |-> q, keys |-> k,
                  vals |-> v, mask |-> m, temp |-> t]

AttentionCall ==
    /\ call.op = "attention" /\ ~call.done
    /\ call' = [call EXCEPT !.done = TRUE] @@
               [ret |-> attention(call.query, call.keys, call.vals, call.mask, call.temp)]
    /\ UNCHANGED <<params, mstate, mhist, mouts, rstate, rhist, routs>>

SpecAttention == InitAttention /\ [][AttentionCall]_vars

\* The shape a mask must have for these queries and keys: (query-count,
\* key-count) for a batch of queries, (key-count,) for a single query.
ExpectedMaskShape(query, keys) ==
    IF Ndim(query) >= 2 THEN <<SizeFromEnd(query, 2), SizeFromEnd(keys, 2)>>
    ELSE <<SizeFromEnd(keys, 2)>>

\* The last k entries of shape sh, or <<>> when it has fewer.
Trailing(sh, k) == IF Len(sh) < k THEN <<>> ELSE SubSeq(sh, Len(sh) - k + 1, Len(sh))

\* The mask's trailing shape differs from the expected one.
MaskShapeMismatch(query, keys, mask) ==
    Trailing(mask.shape, Len(ExpectedMaskShape(query, keys)))
        # ExpectedMaskShape(query, keys)

AllFalse(mask) ==
    IF Ndim(mask) = 1 THEN \A j \in 1..Len(mask.val) : ~mask.val[j]
    ELSE \A i \in 1..Len(mask.val) : \A j \in 1..Len(mask.val[i]) : ~mask.val[i][j]

\* query, keys and vals pass the checks made before the mask is looked at.
ValidQKV(query, keys, vals) ==
    AttentionPrecondition(query, keys, vals, NoMask) = "none"

\* C9: for valid query/keys/vals and any temp, attention with an all-false
\* mask of shape (query-count, key-count) returns what attention returns with
\* mask=None on the same inputs.
C9_AllFalseMaskIsNoMask ==
    (/\ call.op = "attention" /\ call.done
     /\ call.mask.given
     /\ ValidQKV(call.query, call.keys, call.vals)
     /\ call.mask.t.shape = ExpectedMaskShape(call.query, call.keys)
     /\ AllFalse(call.mask.t)) =>
        /\ call.ret.err = "none"
        /\ call.ret = attention(call.query, call.keys, call.vals, NoMask, call.temp)

\* A finished call with two queries, two keys, an all-false (2, 2) mask and
\* temperature 1/2, whose two context rows differ.
C9_Witness ==
    /\ call.op = "attention" /\ call.done
    /\ call.mask.given /\ AllFalse(call.mask.t)
    /\ call.mask.t.shape = <<2, 2>>
    /\ call.query.shape[1] = 2 /\ call.keys.shape[1] = 2
    /\ call.temp = <<1, 2>>
    /\ call.ret.err = "none"
    /\ call.ret.out.val[1] # call.ret.out.val[2]
    /\ call.ret.out.val[1][1][2] > 1

\* C5: attention raises a TypeError whenever a supplied mask's trailing shape
\* differs from (query-count, key-count), for a batch of queries and for a
\* single query (mask of shape (key-count,)).
C5_AttentionMaskMismatchTypeError ==
    (/\ call.op = "attention" /\ call.done
     /\ call.mask.given
     /\ ValidQKV(call.query, call.keys, call.vals)
     /\ MaskShapeMismatch(call.query, call.keys, call.mask.t)) =>
        call.ret.err = "TypeError"

\* The part of C5 that holds of attention: a mask with enough axes to be
\* compared (two for a batch, one for a single query) and a mismatching
\* trailing shape raises a TypeError.
AttentionMaskMismatchWithEnoughAxes ==
    (/\ call.op = "attention" /\ call.done
     /\ call.mask.given
     /\ ValidQKV(call.query, call.keys, call.vals)
     /\ Ndim(call.mask.t) >= Ndim(call.query)
     /\ MaskShapeMismatch(call.query, call.keys, call.mask.t)) =>
        call.ret.err = "TypeError"

InitHardAttention ==
    /\ params = NoParams
    /\ mstate = NoTensor /\ mhist = <<>> /\ mouts = <<>>
    /\ rstate = NoTensor /\ rhist = <<>> /\ routs = <<>>
    /\ \E q \in Queries, k \in Keys, v \in Values, m \in Masks, g \in BOOLEAN :
          call = [op |-> "hardAttention", done |-> FALSE, query |-> q, keys |-> k,
                  vals |-> v, mask |-> m, gumbel |-> g]

\* The outcomes of the Gumbel sample: any key for each query.
GumbelSamples(query, keys) ==
    IF Ndim(query) >= 2 /\ Ndim(keys) >= 2
    THEN {AsSeq(f) : f \in [1..query.shape[1] -> 1..keys.shape[1]]}
    ELSE {<<>>}

HardAttentionCall ==
    /\ call.op = "hardAttention" /\ ~call.done
    /\ \E sel \in (IF call.gumbel THEN GumbelSamples(call.query, call.keys) ELSE {<<>>}) :
          call' = [call EXCEPT !.done = TRUE] @@
                  [ret |-> hardAttention(call.query, call.keys, call.vals,
                                         call.mask, call.gumbel, sel)]
    /\ UNCHANGED <<params, mstate, mhist, mouts, rstate, rhist, routs>>

SpecHardAttention == InitHardAttention /\ [][HardAttentionCall]_vars

\* Row i of vals, as the context hardAttention would return for it.
ValueRow(vals, i) == Seq1(vals.shape[2], LAMBDA c : Rat(vals.val[i][c], 1))

\* The context returned for query i: the result itself for a single query,
\* row i of it for a batch.
ContextOf(query, out, i) ==
    IF Ndim(query) = 1 THEN (IF Ndim(out) = 1 THEN out.val ELSE <<>>)
    ELSE IF Ndim(out) = 2 /\ i <= Len(out.val) THEN out.val[i] ELSE <<>>

\* C3: hardAttention with gumbel=False, on valid inputs with any query count
\* m and key count n, single or batched, returns for every query exactly one
\* row of vals: the row at the argmax of that query's attention weights.
C3_HardArgmaxSelectsOneRow ==
    (/\ call.op = "hardAttention" /\ call.done /\ ~call.gumbel
     /\ AttentionPrecondition(call.query, call.keys, call.vals, call.mask) = "none"
     /\ (call.mask.given => MaskBroadcasts(call.query, call.mask.t))) =>
        /\ call.ret.err = "none"
        /\ LET w == AttnWeights(call.query, call.keys, call.mask, <<1, 1>>)
           IN \A i \in 1..Len(w) :
                 ContextOf(call.query, call.ret.out, i)
                     = ValueRow(call.vals, ArgmaxRow(w[i]) + 1)

\* What the argmax branch returns instead when it returns at all (as many
\* queries as keys): one vector, the sum over the queries i of
\* (argmax index of query i) * vals[i].
HardArgmaxReturnsIndexWeightedSum ==
    (/\ call.op = "hardAttention" /\ call.done /\ ~call.gumbel
     /\ call.ret.err = "none") =>
        /\ Ndim(call.query) = 2 /\ call.query.shape[1] = call.vals.shape[1]
        /\ call.ret.out.shape = <<call.vals.shape[2]>>
        /\ LET w == AttnWeights(call.query, call.keys, call.mask, <<1, 1>>)
           IN \A c \in 1..call.vals.shape[2] :
                 call.ret.out.val[c] =
                    Rat(SumInts(Seq1(Len(w), LAMBDA i :
                            ArgmaxRow(w[i]) * call.vals.val[i][c])), 1)

(***************************************************************************)
(* Constructed layers and single calls on them: the layers are drawn at the *)
(* start together with the arguments of one call, and the call is made.  A  *)
(* LinearLayer is constructed by a call of its own and then run.            *)
(***************************************************************************)
\* An AttentionLayer of size d, the k-th choice of its matrices.
AttnLayer(d, k) ==
    [dims |-> d,
     W_Q |-> IF k = 1 THEN ShearMat(d) ELSE IdentityMat(d),
     W_K |-> IF k = 1 THEN NegMat(d) ELSE ShearMat(d),
     W_V |-> IF k = 1 THEN IdentityMat(d) ELSE NegMat(d)]

RNNLayer(d, k) ==
    [dims |-> d, h0 |-> Vec(Seq1(d, LAMBDA i : k - 1)),
     W_hi |-> ShearMat(d), W_hh |-> IF k = 1 THEN IdentityMat(d) ELSE NegMat(d),
     b |-> Vec(Seq1(d, LAMBDA i : i - 1))]

\* Embedding tables of three words whose rows have integral norm.
EmbeddingTable(k) ==
    IF k = 1 THEN Mat(3, 2, <<(<<3, 4>>), (<<0, -2>>), (<<-5, 12>>)>>)
    ELSE Mat(3, 2, <<(<<1, 0>>), (<<0, 0>>), (<<-4, 3>>)>>)

LinearOf(out, in, k, residual) ==
    [residual |-> residual, W |-> PatMat(k, out, in), b |-> PatVec(k, out)]

\* All the layers of size d, the k-th choice of parameters: MHSelfAttention
\* with k heads, FFN(d, 2, d) and FFN(d, 2, 2), both with the residual
\* connection.
LayerSet(d, k) ==
    [attn |-> AttnLayer(d, k),
     rnn |-> RNNLayer(d, k),
     emb |-> [W |-> EmbeddingTable(k)],
     softmax |-> [W |-> PatMat(2, 3, d)],
     heads |-> IF k = 1 THEN <<AttnLayer(d, 2)>>
               ELSE <<AttnLayer(d, 1), AttnLayer(d, 2)>>,
     ffn |-> IF k = 1
             THEN [lin1 |-> LinearOf(2, d, 2, FALSE), lin2 |-> LinearOf(d, 2, 4, FALSE),
                   residual |-> TRUE]
             ELSE [lin1 |-> LinearOf(2, d, 4, FALSE), lin2 |-> LinearOf(2, 2, 2, FALSE),
                   residual |-> TRUE],
     lin |-> NoLayer]

LayerSets == {LayerSet(d, k) : d \in DimsChoices, k \in 1..2}

\* Inputs of the layers: single vectors and sequences of 1..MaxQueries
\* vectors, of every size.
LayerInputs ==
    AllVectors \cup {PatMat(k, n, d) : k \in {2, 4}, n \in 1..MaxQueries, d \in DimsChoices}

\* States handed to MaskedSelfAttentionLayer.step: start()'s, and sequences
\* of earlier inputs.
StepStates(p) ==
    {MaskedSelfAttentionLayer_start(p)}
        \cup {PatMat(2, n, d) : n \in 1..MaxQueries, d \in DimsChoices}

\* What Embedding.forward is called with.
EmbeddingInputs ==
    [kind : {"int"}, v : -MaxId..MaxId]
        \cup [kind : {"float"}, v : {0, 1}]
        \cup [kind : {"tensor"},
              dtype : {"int64", "int32", "int16", "uint8", "float32"},
              t : {Vec(<<0>>), Vec(<<1, -1>>), Vec(<<2, 0, 1>>), Vec(<<0, MaxId>>)}]

IdleDrivers ==
    /\ mstate = NoTensor /\ mhist = <<>> /\ mouts = <<>>
    /\ rstate = NoTensor /\ rhist = <<>> /\ routs = <<>>

Pending(op, args) == call = [op |-> op, done |-> FALSE] @@ args

Init ==
    /\ params \in LayerSets
    /\ IdleDrivers
    /\ \/ \E inp \in EmbeddingInputs : Pending("Embedding.forward", [inp |-> inp])
       \/ \E i \in 1..MaxLinearDims, o \in 1..MaxLinearDims, r \in BOOLEAN :
             Pending("LinearLayer.__init__",
                     [input_dims |-> i, output_dims |-> o, residual |-> r])
       \/ \E x \in LayerInputs :
             \E op \in {"SoftmaxLayer.forward", "SelfAttentionLayer.forward",
                        "MaskedSelfAttentionLayer.forward", "MHSelfAttentionLayer.forward",
                        "FFN.forward", "RNN.forward"} :
                Pending(op, [inputs |-> x, dims |-> params.attn.dims])
       \/ \E x \in LayerInputs, g \in BOOLEAN :
             Pending("HardSelfAttentionLayer.forward",
                     [inputs |-> x, dims |-> params.attn.dims, gumbel |-> g])
       \/ \E f \in LayerInputs, e \in LayerInputs :
             Pending("CrossAttentionLayer.forward",
                     [finputs |-> f, inputs |-> e, dims |-> params.attn.dims])
       \/ \E st \in StepStates(params.attn), x \in AllVectors :
             Pending("MaskedSelfAttentionLayer.step",
                     [state |-> st, inputs |-> x, dims |-> params.attn.dims])
       \/ \E st \in AllVectors, x \in AllVectors :
             Pending("RNN.step", [state |-> st, inputs |-> x, dims |-> params.rnn.dims])

\* The pending call op is made and returns r.
Returns(op, r) ==
    /\ call.op = op /\ ~call.done
    /\ call' = [call EXCEPT !.done = TRUE] @@ [ret |-> r]
    /\ UNCHANGED <<mstate, mhist, mouts, rstate, rhist, routs>>

EmbeddingForward ==
    /\ Returns("Embedding.forward", Embedding_forward(params.emb, call.inp))
    /\ UNCHANGED params

LinearLayerInit ==
    /\ call.op = "LinearLayer.__init__" /\ ~call.done
    /\ \E k \in {2, 4} :
         LET r == LinearLayer_init(call.input_dims, call.output_dims, call.residual,
                                   PatMat(k, call.output_dims, call.input_dims),
                                   PatVec(k, call.output_dims))
         IN /\ call' = [call EXCEPT !.done = TRUE] @@ [ret |-> r]
            /\ params' = IF r.err = "none" THEN [params EXCEPT !.lin = r.layer]
                         ELSE params
    /\ UNCHANGED <<mstate, mhist, mouts, rstate, rhist, routs>>

\* forward on the LinearLayer just constructed.
LinearLayerForward ==
    /\ call.op = "LinearLayer.__init__" /\ call.done /\ call.ret.err = "none"
    /\ \E x \in LayerInputs :
         call' = [op |-> "LinearLayer.forward", done |-> TRUE, inputs |-> x,
                  dims |-> call.input_dims,
                  ret |-> LinearLayer_forward(params.lin, x)]
    /\ UNCHANGED <<params, mstate, mhist, mouts, rstate, rhist, routs>>

SoftmaxLayerForward ==
    /\ Returns("SoftmaxLayer.forward", SoftmaxLayer_forward(params.softmax, call.inputs))
    /\ UNCHANGED params

SelfAttentionForward ==
    /\ Returns("SelfAttentionLayer.forward",
               SelfAttentionLayer_forward(params.attn, call.inputs))
    /\ UNCHANGED params

HardSelfAttentionForward ==
    /\ \E sel \in (IF call.op = "HardSelfAttentionLayer.forward" /\ call.gumbel
                   THEN GumbelSamples(call.inputs, call.inputs) ELSE {<<>>}) :
          Returns("HardSelfAttentionLayer.forward",
                  HardSelfAttentionLayer_forward(params.attn, call.inputs, call.gumbel, sel))
    /\ UNCHANGED params

MaskedForwardCall ==
    /\ Returns("MaskedSelfAttentionLayer.forward",
               MaskedSelfAttentionLayer_forward(params.attn, call.inputs))
    /\ params' = [params EXCEPT
                    !.attn = LayerAfter(@, MaskedForwardWrites(@, call.inputs))]

MaskedStepCall ==
    /\ Returns("MaskedSelfAttentionLayer.step",
               MaskedSelfAttentionLayer_step(params.attn, call.state, call.inputs))
    /\ UNCHANGED params

CrossAttentionForward ==
    /\ Returns("CrossAttentionLayer.forward",
               CrossAttentionLayer_forward(params.attn, call.finputs, call.inputs))
    /\ UNCHANGED params

MHSelfAttentionForward ==
    /\ Returns("MHSelfAttentionLayer.forward",
               MHSelfAttentionLayer_forward(params.heads, call.inputs))
    /\ UNCHANGED params

FFNForward ==
    /\ Returns("FFN.forward", FFN_forward(params.ffn, call.inputs))
    /\ UNCHANGED params

RNNStepCall ==
    /\ Returns("RNN.step", RNN_step(params.rnn, call.state, call.inputs))
    /\ UNCHANGED params

RNNForwardCall ==
    /\ Returns("RNN.forward", RNN_forward(params.rnn, call.inputs))
    /\ UNCHANGED params

Next ==
    \/ EmbeddingForward
    \/ LinearLayerInit
    \/ LinearLayerForward
    \/ SoftmaxLayerForward
    \/ SelfAttentionForward
    \/ HardSelfAttentionForward
    \/ MaskedForwardCall
    \/ MaskedStepCall
    \/ CrossAttentionForward
    \/ MHSelfAttentionForward
    \/ FFNForward
    \/ RNNStepCall
    \/ RNNForwardCall

Spec == Init /\ [][Next]_vars

\* The input is of integral type: a Python int, or a tensor of an integer
\* dtype.
IntegralInput(inp) ==
    \/ inp.kind = "int"
    \/ inp.kind = "tensor" /\ inp.dtype \in {"int64", "int32", "int16", "uint8"}

\* C4: Embedding.forward raises a TypeError for every input that is not of
\* integral type (a Python float, a float tensor), and raises no TypeError
\* for an integral id or a tensor of integral ids.
C4_EmbeddingTypeErrorIffNotIntegral ==
    (call.op = "Embedding.forward" /\ call.done) =>
        ((call.ret.err = "TypeError") <=> ~IntegralInput(call.inp))

\* What holds of the code: a TypeError is raised exactly for tensors whose
\* dtype is neither int32 nor int64; a Python float raises an AttributeError.
EmbeddingTypeErrorIffOtherDtype ==
    (call.op = "Embedding.forward" /\ call.done) =>
        /\ (call.ret.err = "TypeError") <=>
              (call.inp.kind = "tensor" /\ call.inp.dtype \notin {"int32", "int64"})
        /\ (call.ret.err = "AttributeError") <=> (call.inp.kind = "float")

\* C8: LinearLayer construction fails with a ValueError exactly when residual
\* is true and input_dims != output_dims, and succeeds for every other
\* combination, giving W of shape (output_dims, input_dims) and b of shape
\* (output_dims,).
C8_LinearInitValueErrorIffResidualMismatch ==
    (call.op = "LinearLayer.__init__" /\ call.done) =>
        /\ (call.ret.err = "ValueError") <=>
              (call.residual /\ call.input_dims # call.output_dims)
        /\ (call.ret.err # "ValueError") =>
              /\ call.ret.err = "none"
              /\ call.ret.layer.W.shape = <<call.output_dims, call.input_dims>>
              /\ call.ret.layer.b.shape = <<call.output_dims>>
              /\ call.ret.layer.residual = call.residual
              /\ params.lin = call.ret.layer

\* A construction with residual=True, input_dims 1 and output_dims 2 that
\* failed with the ValueError and constructed nothing.
C8_Witness ==
    /\ call.op = "LinearLayer.__init__" /\ call.done
    /\ call.residual /\ call.input_dims = 1 /\ call.output_dims = 2
    /\ call.ret.err = "ValueError"
    /\ params.lin = NoLayer

\* The calls of C6: forward and step of the layers.
LayerCalls ==
    {"RNN.step", "RNN.forward", "LinearLayer.forward", "SoftmaxLayer.forward",
     "SelfAttentionLayer.forward", "HardSelfAttentionLayer.forward",
     "MaskedSelfAttentionLayer.forward", "MaskedSelfAttentionLayer.step",
     "CrossAttentionLayer.forward", "MHSelfAttentionLayer.forward", "FFN.forward"}

\* C6: every forward/step call of every layer whose input's last dimension
\* does not match the layer's dims aborts with a TypeError and returns no
\* new state.
C6_LayersRaiseTypeErrorOnWrongSize ==
    (/\ call.op \in LayerCalls /\ call.done
     /\ SizeFromEnd(call.inputs, 1) # call.dims) =>
        /\ call.ret.err = "TypeError"
        /\ call.op \in {"RNN.step", "MaskedSelfAttentionLayer.step"} =>
              call.ret.state = NoTensor

\* What holds of the code: the same for every call but
\* MaskedSelfAttentionLayer.step, which checks nothing.
CheckedLayersRaiseTypeErrorOnWrongSize ==
    (/\ call.op \in LayerCalls \ {"MaskedSelfAttentionLayer.step"} /\ call.done
     /\ SizeFromEnd(call.inputs, 1) # call.dims) =>
        /\ call.ret.err = "TypeError"
        /\ call.op = "RNN.step" => call.ret.state = NoTensor

\* MaskedSelfAttentionLayer.step on an input of the wrong size never raises a
\* TypeError: torch.cat or the matrix product raises a RuntimeError.
MaskedStepWrongSizeRaisesRuntimeError ==
    (/\ call.op = "MaskedSelfAttentionLayer.step" /\ call.done
     /\ SizeFromEnd(call.inputs, 1) # call.dims) =>
        call.ret.err = "RuntimeError"

(***************************************************************************)
(* Sequences of calls: after a call has returned or raised, the caller      *)
(* makes another on the same layers.                                        *)
(***************************************************************************)
\* The inputs of the later calls: a vector of each size, and sequences of
\* 1..MaxQueries vectors of each size.
CallVectors == {Vec(<<1>>), Vec(<<-1, 1>>)}
CallInputs ==
    CallVectors \cup {PatMat(2, n, d) : n \in 1..MaxQueries, d \in DimsChoices}

\* The encoder outputs CrossAttentionLayer.forward is called with.
CallEncoderInputs ==
    {Vec(<<1>>)} \cup {PatMat(2, MaxKeys, d) : d \in DimsChoices}

\* The empty sequences.
EmptyInputs == {Mat(0, d, <<>>) : d \in DimsChoices}

CallEmbeddingInputs ==
    {[kind |-> "int", v |-> 0], [kind |-> "int", v |-> MaxId],
     [kind |-> "float", v |-> 0],
     [kind |-> "tensor", dtype |-> "int64", t |-> Vec(<<2, 0, 1>>)],
     [kind |-> "tensor", dtype |-> "float32", t |-> Vec(<<0>>)]}

\* The layers are constructed and no call has been made.
InitCalls ==
    /\ params \in LayerSets
    /\ IdleDrivers
    /\ call = [op |-> "none", done |-> TRUE]

Drawn(op, args) == call' = [op |-> op, done |-> FALSE] @@ args

\* The caller's next call, with its arguments.
DrawCall ==
    /\ call.done
    /\ \/ \E inp \in CallEmbeddingInputs : Drawn("Embedding.forward", [inp |-> inp])
       \/ \E o \in 1..MaxLinearDims, r \in BOOLEAN :
             Drawn("LinearLayer.__init__",
                   [input_dims |-> params.attn.dims, output_dims |-> o,
                    residual |-> r])
       \/ \E x \in CallInputs :
             \E op \in {"SoftmaxLayer.forward", "SelfAttentionLayer.forward",
                        "MHSelfAttentionLayer.forward", "FFN.forward"} :
                Drawn(op, [inputs |-> x, dims |-> params.attn.dims])
       \/ \E x \in CallInputs \cup EmptyInputs :
             \E op \in {"MaskedSelfAttentionLayer.forward", "RNN.forward"} :
                Drawn(op, [inputs |-> x, dims |-> params.attn.dims])
       \/ \E x \in CallInputs \cup EmptyInputs :
             /\ TempExponentsFit(params.attn, x)
             /\ Drawn("MaskedSelfAttentionLayerTemp.forward",
                      [inputs |-> x, dims |-> params.attn.dims])
       \/ \E x \in CallInputs, g \in BOOLEAN :
             Drawn("HardSelfAttentionLayer.forward",
                   [inputs |-> x, dims |-> params.attn.dims, gumbel |-> g])
       \/ \E f \in CallInputs, e \in CallEncoderInputs :
             Drawn("CrossAttentionLayer.forward",
                   [finputs |-> f, inputs |-> e, dims |-> params.attn.dims])
       \/ \E st \in StepStates(params.attn), x \in CallVectors :
             \E op \in {"MaskedSelfAttentionLayer.step",
                        "MaskedSelfAttentionLayerTemp.step"} :
                Drawn(op, [state |-> st, inputs |-> x, dims |-> params.attn.dims])
       \/ \E st \in CallVectors, x \in CallVectors :
             Drawn("RNN.step", [state |-> st, inputs |-> x, dims |-> params.rnn.dims])
       \/ \E op \in {"MaskedSelfAttentionLayer.start",
                      "MaskedSelfAttentionLayerTemp.start", "RNN.start"} :
             Drawn(op, [dims |-> params.attn.dims])
    /\ UNCHANGED <<params, mstate, mhist, mouts, rstate, rhist, routs>>

MaskedStartCall ==
    /\ Returns("MaskedSelfAttentionLayer.start",
               Ok(MaskedSelfAttentionLayer_start(params.attn)))
    /\ UNCHANGED params

TempStartCall ==
    /\ Returns("MaskedSelfAttentionLayerTemp.start",
               Ok(MaskedSelfAttentionLayerTemp_start(params.attn)))
    /\ UNCHANGED params

TempStepCall ==
    /\ Returns("MaskedSelfAttentionLayerTemp.step",
               MaskedSelfAttentionLayerTemp_step(params.attn, call.state, call.inputs))
    /\ UNCHANGED params

TempForwardCall ==
    /\ Returns("MaskedSelfAttentionLayerTemp.forward",
               MaskedSelfAttentionLayerTemp_forward(params.attn, call.inputs))
    /\ params' = [params EXCEPT
                    !.attn = LayerAfter(@, TempForwardWrites(@, call.inputs))]

\* start returns the parameter h0 itself.
RNNStartCall ==
    /\ Returns("RNN.start", Ok(RNN_start(params.rnn)))
    /\ UNCHANGED params

NextCalls ==
    \/ Next
    \/ DrawCall
    \/ MaskedStartCall
    \/ TempStartCall
    \/ TempStepCall
    \/ TempForwardCall
    \/ RNNStartCall

SpecCalls == InitCalls /\ [][NextCalls]_vars

\* The constructor calls.
Constructors == {"LinearLayer.__init__"}

\* The parameters the layers were constructed with.
ConstructedParameters ==
    \E d \in DimsChoices, k \in 1..2 :
       [params EXCEPT !.lin = NoLayer] = LayerSet(d, k)

\* C12: no start, step or forward call of any layer, in any sequence of
\* calls and whether it returns or raises, changes a layer parameter
\* (Embedding.W, RNN h0/W_hi/W_hh/b, LinearLayer W/b, SoftmaxLayer W, attention
\* W_Q/W_K/W_V): every step of the system other than a constructor's return
\* leaves all the parameters as they are.
C12_CallsLeaveParametersUnchanged ==
    [][(call'.op \notin Constructors) => params' = params]_vars

\* A masked forward with the 1/n^3 temperature, which fills its logits in
\* place, has returned on two vectors; it was called after a LinearLayer was
\* constructed with the residual connection, and all the parameters are the
\* constructed ones.
C12_Witness ==
    /\ call.op = "MaskedSelfAttentionLayerTemp.forward"
    /\ call.done
    /\ call.ret.err = "none"
    /\ call.inputs.shape[1] = 2
    /\ params.lin # NoLayer
    /\ params.lin.residual
    /\ ConstructedParameters

=============================================================================
